---- MODULE Spec2Model ----
(***************************************************************************)
(* A model of scraper.py (uniqlo-my-scraper): the path policy is_allowed,  *)
(* the "load more" reveal loop scroll_and_click_load_more, the per-item    *)
(* extraction extract_product_info, the orchestrator                       *)
(* scrape_uniqlo_women_tops and the JSON sink save_to_json.                *)
(*                                                                         *)
(* A Python str is a sequence of one-character strings.  Python's None is  *)
(* the value NoneVal, a sequence that is no str (its one element has more  *)
(* than one character).                                                    *)
(***************************************************************************)
EXTENDS Integers, Sequences, FiniteSets, TLC

VARIABLES
    pc,              \* position of the running call
    url,             \* the URL argument (scrape_uniqlo_women_tops / is_allowed)
    allowed,         \* is_allowed's outcome under SpecPolicy: "unset", "True", "False", "ValueError"
    comp,            \* the components url was composed of (SpecPolicy)
    product,         \* the item card handed to extract_product_info (SpecExtract)
    product_info,    \* what extract_product_info returned (SpecExtract)
    driver,          \* the browser session: "none", "open", "quit"
    navigated,       \* driver.get(url) was called
    load_more_count, \* scroll_and_click_load_more's counter
    scrolls,         \* scroll-to-bottom scripts run (line 90)
    waits,           \* presence waits begun (line 100)
    click_calls,     \* load_more_button.click() calls made (line 111)
    stale_count,     \* StaleElementReferenceExceptions caught (line 122)
    visible_seen,    \* an is_displayed() call returned True
    done_reason,     \* why the reveal loop left: "", "not_visible", "timeout", "not_found", "unexpected"
    product_list,    \* the item cards find_elements returned (line 288)
    item_index,      \* item cards processed so far (i of line 292)
    products,        \* the records collected so far (line 291)
    returned,        \* the list scrape_uniqlo_women_tops returned
    raised_at,       \* the step whose exception left scrape_uniqlo_women_tops, "" if none
    json_file        \* the content of the JSON destination, NoFile if it does not exist

policyVars == <<allowed, comp>>
extractVars == <<product, product_info>>
loopVars == <<load_more_count, scrolls, waits, click_calls, stale_count, visible_seen, done_reason>>
batchVars == <<product_list, item_index, products>>
scrapeVars == <<driver, navigated, loopVars, batchVars, returned, raised_at, json_file>>

vars == <<pc, url, policyVars, extractVars, scrapeVars>>

----------------------------------------------------------------------------
(* Strings *)

NoneVal == <<"None">>

\* s.startswith(p)
StartsWith(s, p) == Len(p) <= Len(s) /\ SubSeq(s, 1, Len(p)) = p

\* sub in s
Contains(s, sub) ==
    \E i \in 1..(Len(s) - Len(sub) + 1) : SubSeq(s, i, i + Len(sub) - 1) = sub

\* s.find(c, start): the first index >= from (1-based) holding a character of cs, 0 if none
FindFrom(s, cs, from) ==
    IF \A k \in from..Len(s) : s[k] \notin cs THEN 0
    ELSE CHOOSE k \in from..Len(s) : s[k] \in cs /\ \A j \in from..(k - 1) : s[j] \notin cs

\* s.rfind(c): the last index holding c, 0 if none
RFind(s, c) ==
    IF \A k \in 1..Len(s) : s[k] # c THEN 0
    ELSE CHOOSE k \in 1..Len(s) : s[k] = c /\ \A j \in (k + 1)..Len(s) : s[j] # c

\* F applied to the value of v: a statement sequence "x = v; F(x)"
Then(v, F(_)) == CHOOSE y \in {F(x) : x \in {v}} : TRUE

\* s[i:] with a 1-based i
From(s, i) == SubSeq(s, i, Len(s))

\* s[:i] exclusive of the 1-based i
Upto(s, i) == SubSeq(s, 1, i - 1)

Letters ==
    {"a","b","c","d","e","f","g","h","i","j","k","l","m",
     "n","o","p","q","r","s","t","u","v","w","x","y","z"}

Digits == {"0","1","2","3","4","5","6","7","8","9"}

\* urllib.parse.scheme_chars (lower case letters only: the modelled URLs hold no capitals)
scheme_chars == Letters \cup Digits \cup {"+", "-", "."}

----------------------------------------------------------------------------
(* urllib.parse.urlparse, as is_allowed uses it *)

\* urlsplit's scheme step: url.find(':') > 0, url[0] a letter, url[:i] all scheme characters
SchemeEnd(u) ==
    IF FindFrom(u, {":"}, 1) > 1 /\ u[1] \in Letters
       /\ \A k \in 1..(FindFrom(u, {":"}, 1) - 1) : u[k] \in scheme_chars
    THEN FindFrom(u, {":"}, 1) ELSE 0

\* urlsplit: scheme, url = url[:i].lower(), url[i+1:]
SplitScheme(u) ==
    Then(SchemeEnd(u), LAMBDA se :
        [scheme |-> IF se > 0 THEN Upto(u, se) ELSE <<>>,
         rest   |-> IF se > 0 THEN From(u, se + 1) ELSE u])

\* urlsplit: if url[:2] == '//': netloc, url = _splitnetloc(url, 2), and the bracket check
\* that raises ValueError("Invalid IPv6 URL")
SplitNetloc(st) ==
    IF ~StartsWith(st.rest, <<"/", "/">>)
    THEN [scheme |-> st.scheme, netloc |-> <<>>, rest |-> st.rest, error |-> FALSE]
    ELSE Then(FindFrom(st.rest, {"/", "?", "#"}, 3), LAMBDA delim :
           Then(IF delim = 0 THEN From(st.rest, 3) ELSE SubSeq(st.rest, 3, delim - 1),
                LAMBDA netloc :
                  [scheme |-> st.scheme, netloc |-> netloc,
                   rest   |-> IF delim = 0 THEN <<>> ELSE From(st.rest, delim),
                   error  |-> Contains(netloc, <<"[">>) # Contains(netloc, <<"]">>)]))

\* urlsplit: url, fragment = url.split('#', 1)
SplitFragment(st) ==
    Then(FindFrom(st.rest, {"#"}, 1), LAMBDA hash :
        [scheme |-> st.scheme, netloc |-> st.netloc, error |-> st.error,
         fragment |-> IF hash > 0 THEN From(st.rest, hash + 1) ELSE <<>>,
         rest     |-> IF hash > 0 THEN Upto(st.rest, hash) ELSE st.rest])

\* urlsplit: url, query = url.split('?', 1)
SplitQuery(st) ==
    Then(FindFrom(st.rest, {"?"}, 1), LAMBDA qm :
        [scheme |-> st.scheme, netloc |-> st.netloc, error |-> st.error,
         fragment |-> st.fragment,
         query    |-> IF qm > 0 THEN From(st.rest, qm + 1) ELSE <<>>,
         rest     |-> IF qm > 0 THEN Upto(st.rest, qm) ELSE st.rest])

\* urlparse: url, params = _splitparams(url), the ';' searched after the last '/'
SplitParams(st) ==
    Then(FindFrom(st.rest, {";"}, IF RFind(st.rest, "/") > 0 THEN RFind(st.rest, "/") ELSE 1),
         LAMBDA semi :
        [error |-> st.error, scheme |-> st.scheme, netloc |-> st.netloc,
         path     |-> IF semi > 0 THEN Upto(st.rest, semi) ELSE st.rest,
         params   |-> IF semi > 0 THEN From(st.rest, semi + 1) ELSE <<>>,
         query    |-> st.query, fragment |-> st.fragment])

urlparse(u) ==
    Then(Then(Then(Then(Then(Then(u, SplitScheme), SplitNetloc), SplitFragment), SplitQuery),
              SplitParams),
         LAMBDA r : r)

----------------------------------------------------------------------------
(* is_allowed *)

S_my_en  == <<"/", "m", "y", "/", "e", "n">>
S_cms    == <<"/", "c", "m", "s">>
S_search == <<"/", "s", "e", "a", "r", "c", "h">>
S_news   == <<"/", "n", "e", "w", "s">>
S_sp     == <<"/", "s", "p">>
S_slash  == <<"/">>
S_x      == <<"x">>

disallowed_paths ==
    << S_my_en \o S_cms \o S_slash,
       S_my_en \o S_search,
       S_my_en \o S_news \o S_search,
       S_my_en \o S_news \o S_sp \o S_search >>

\* is_allowed(url) raises (the ValueError of urlparse)
is_allowed_raises(u) == urlparse(u).error

\* is_allowed(url), where it returns
is_allowed(u) ==
    Then(urlparse(u).path, LAMBDA path :
        ~ \E k \in 1..Len(disallowed_paths) : StartsWith(path, disallowed_paths[k]))

----------------------------------------------------------------------------
(* urllib.parse.urljoin, as extract_product_info uses it.  The modelled    *)
(* hrefs hold no "." or ".." segment and no empty segment, so the          *)
(* dot-segment resolution of urljoin leaves their paths as they are.       *)

\* urlunparse
urlunparse(scheme, netloc, path, params, query, fragment) ==
    LET u1 == IF params # <<>> THEN path \o <<";">> \o params ELSE path
        u2 == IF netloc # <<>>
              THEN <<"/", "/">> \o netloc
                   \o (IF u1 # <<>> /\ Head(u1) # "/" THEN <<"/">> ELSE <<>>) \o u1
              ELSE u1
        u3 == IF scheme # <<>> THEN scheme \o <<":">> \o u2 ELSE u2
        u4 == IF query # <<>> THEN u3 \o <<"?">> \o query ELSE u3
    IN  IF fragment # <<>> THEN u4 \o <<"#">> \o fragment ELSE u4

\* urljoin(base, url) raises ValueError
urljoin_raises(base, u) ==
    /\ base # <<>>
    /\ u # NoneVal /\ u # <<>>
    /\ (urlparse(base).error \/ urlparse(u).error)

\* urljoin's resolution of the parsed url r against the parsed base b
Resolve(u, b, r) ==
    Then(IF r.scheme = <<>> THEN b.scheme ELSE r.scheme, LAMBDA scheme :
        IF scheme # b.scheme THEN u
        ELSE IF r.netloc # <<>>
        THEN urlunparse(scheme, r.netloc, r.path, r.params, r.query, r.fragment)
        ELSE IF r.path = <<>> /\ r.params = <<>>
        THEN urlunparse(scheme, b.netloc, b.path, b.params,
                        IF r.query = <<>> THEN b.query ELSE r.query, r.fragment)
        ELSE IF Head(r.path) = "/"
        THEN urlunparse(scheme, b.netloc, r.path, r.params, r.query, r.fragment)
        ELSE urlunparse(scheme, b.netloc, SubSeq(b.path, 1, RFind(b.path, "/")) \o r.path,
                        r.params, r.query, r.fragment))

\* urljoin(base, url), where it returns
urljoin(base, u) ==
    IF base = <<>> THEN u
    ELSE IF u = NoneVal \/ u = <<>> THEN base
    ELSE Then(<<urlparse(base), urlparse(u)>>, LAMBDA br : Resolve(u, br[1], br[2]))

----------------------------------------------------------------------------
(* Python values of a product's fields: None, str, int, float, list of str *)

PyNone     == [type |-> "NoneType", s |-> <<>>, n |-> 0, l |-> <<>>]
PyStr(s)   == [type |-> "str", s |-> s, n |-> 0, l |-> <<>>]
PyInt(n)   == [type |-> "int", s |-> <<>>, n |-> n, l |-> <<>>]
\* a float, held as its repr
PyFloat(r) == [type |-> "float", s |-> r, n |-> 0, l |-> <<>>]
PyList(l)  == [type |-> "list", s |-> <<>>, n |-> 0, l |-> l]

\* a str, or None where the Python value is None
PyOpt(v) == IF v = NoneVal THEN PyNone ELSE PyStr(v)

Whitespace == {" "}

\* s.strip()
RECURSIVE LStrip(_)
LStrip(s) == IF s # <<>> /\ Head(s) \in Whitespace THEN LStrip(Tail(s)) ELSE s

RECURSIVE RStrip(_)
RStrip(s) ==
    IF s # <<>> /\ s[Len(s)] \in Whitespace THEN RStrip(SubSeq(s, 1, Len(s) - 1)) ELSE s

Strip(s) == RStrip(LStrip(s))

\* s.replace(old, "")
RECURSIVE Remove(_, _)
Remove(s, old) ==
    IF s = <<>> THEN <<>>
    ELSE IF StartsWith(s, old) THEN Remove(From(s, Len(old) + 1), old)
    ELSE <<Head(s)>> \o Remove(Tail(s), old)

\* s.split(sep)[-1]
SplitLast(s, sep) ==
    LET hits == {i \in 1..(Len(s) - Len(sep) + 1) : SubSeq(s, i, i + Len(sep) - 1) = sep}
    IN  IF hits = {} THEN s
        ELSE From(s, (CHOOSE i \in hits : \A j \in hits : j <= i) + Len(sep))

----------------------------------------------------------------------------
(* float(), round(), and the f-string of a float.  The modelled price      *)
(* texts are digits with at most one "." and at most two digits after it   *)
(* (plus "RM", ",", blanks and letters that make float() fail); a price is *)
(* held in hundredths.                                                     *)

DigitValue(c) == CHOOSE d \in 0..9 : <<"0","1","2","3","4","5","6","7","8","9">>[d + 1] = c

RECURSIVE DigitsToInt(_)
DigitsToInt(ds) ==
    IF ds = <<>> THEN 0
    ELSE DigitsToInt(SubSeq(ds, 1, Len(ds) - 1)) * 10 + DigitValue(ds[Len(ds)])

\* float(s) raises ValueError
float_raises(s) ==
    LET t == Strip(s)
    IN  \/ \E i \in 1..Len(t) : t[i] \notin Digits \cup {"."}
        \/ Cardinality({i \in 1..Len(t) : t[i] = "."}) > 1
        \/ Cardinality({i \in 1..Len(t) : t[i] \in Digits}) = 0

\* float(s) in hundredths, where it returns
float_cents(s) ==
    LET t    == Strip(s)
        dot  == FindFrom(t, {"."}, 1)
        ip   == IF dot = 0 THEN t ELSE Upto(t, dot)
        fp   == IF dot = 0 THEN <<>> ELSE From(t, dot + 1)
        fp2  == SubSeq(fp \o <<"0", "0">>, 1, 2)
    IN  DigitsToInt(ip) * 100 + DigitsToInt(fp2)

RECURSIVE IntToDigits(_)
IntToDigits(n) ==
    IF n < 10 THEN <<<<"0","1","2","3","4","5","6","7","8","9">>[n + 1]>>
    ELSE IntToDigits(n \div 10) \o <<<<"0","1","2","3","4","5","6","7","8","9">>[(n % 10) + 1]>>

\* the nearest integer to n / d for n >= 0, d > 0, a tie going to the even one
RoundDiv(n, d) ==
    LET q == n \div d
        r == n % d
    IN  IF 2 * r < d THEN q
        ELSE IF 2 * r > d THEN q + 1
        ELSE IF q % 2 = 0 THEN q ELSE q + 1

Abs(n) == IF n < 0 THEN -n ELSE n

\* round((original - sale) / original * 100, 2) for prices in hundredths: sign and hundredths
RoundedDiscount(o, s) ==
    [neg |-> (o - s) < 0, h |-> RoundDiv(Abs(o - s) * 10000, o)]

\* repr() of the float d.h / 100: the shortest decimal, one fraction digit at least
FloatRepr(d) ==
    LET ip   == IntToDigits(d.h \div 100)
        f    == d.h % 100
        frac == IF f % 10 = 0 THEN IntToDigits(f \div 10)
                ELSE IntToDigits(f \div 10) \o IntToDigits(f % 10)
    IN  (IF d.neg THEN <<"-">> ELSE <<>>) \o ip \o <<".">> \o frac

----------------------------------------------------------------------------
(* extract_product_info.  A card (an item card of the page) is what the    *)
(* selectors of the function find in it:                                   *)
(*   data_test      the card's data-test attribute, or NoneVal             *)
(*   has_img, src   ".fr-product-image img" and its src, or NoneVal        *)
(*   color_tips     the class attribute of each ".color-tips .color-tip"   *)
(*   has_title, title_text      "h2.description"                           *)
(*   has_size, size_text        '[data-test="product-card-size"]'          *)
(*   has_price      ".fr-product-price"                                    *)
(*   price_original, price_limited    the texts of the currency spans      *)
(*   limited_offer  the texts of the limited-offer flag texts              *)
(*   flags          "ul.fr-status-flag li": data-test (or NoneVal), text   *)
(*   has_a, href    the first "a" and its href, or NoneVal                 *)

S_product_card == <<"p","r","o","d","u","c","t","-","c","a","r","d","-">>
S_extra         == <<"e","x","t","r","a">>
S_limited_offer == <<"l","i","m","i","t","e","d","-","o","f","f","e","r">>
S_RM            == <<"R", "M">>

\* a Python str is truthy
Truthy(s) == s # NoneVal /\ s # <<>>

\* lines 178-185
OriginalPrice(card) ==
    IF card.price_original # <<>>
    THEN Strip(card.price_original[Len(card.price_original)])
    ELSE NoneVal

\* lines 179-194
SalePrice(card) ==
    LET sp == IF card.price_limited # <<>>
              THEN Strip(card.price_limited[Len(card.price_limited)])
              ELSE NoneVal
    IN  IF Truthy(sp) THEN sp ELSE NoneVal

\* the text float() is given: original_price.replace(",", "").replace("RM", "")
PriceNumber(p) == Remove(Remove(p, <<",">>), S_RM)

\* both prices are there and both parse (lines 198-203 without a ValueError)
PricesParse(card) ==
    /\ Truthy(OriginalPrice(card))
    /\ Truthy(SalePrice(card))
    /\ ~float_raises(PriceNumber(OriginalPrice(card)))
    /\ ~float_raises(PriceNumber(SalePrice(card)))

\* the division of lines 204-209 raises ZeroDivisionError
DiscountDividesByZero(card) ==
    PricesParse(card) /\ float_cents(PriceNumber(OriginalPrice(card))) = 0

\* DiscountField with a missing sale price taken as no reduction
DiscountField_ZeroWithoutSale(card) ==
    IF PricesParse(card)
    THEN PyStr(FloatRepr(RoundedDiscount(float_cents(PriceNumber(OriginalPrice(card))),
                                         float_cents(PriceNumber(SalePrice(card)))))
               \o <<"%">>)
    ELSE IF ~Truthy(SalePrice(card)) THEN PyStr(<<"0", ".", "0", "%">>)
    ELSE PyNone

\* lines 196-213 and 245: the record's discount
DiscountField(card) ==
    IF PricesParse(card)
    THEN PyStr(FloatRepr(RoundedDiscount(float_cents(PriceNumber(OriginalPrice(card))),
                                         float_cents(PriceNumber(SalePrice(card)))))
               \o <<"%">>)
    ELSE PyNone

\* lines 163-166
RECURSIVE ColorOptions(_)
ColorOptions(tips) ==
    IF tips = <<>> THEN 0
    ELSE (IF Contains(Head(tips), S_extra) THEN 0 ELSE 1) + ColorOptions(Tail(tips))

\* lines 222-227, where no flag lacks its data-test
RECURSIVE AdditionalInfo(_)
AdditionalInfo(flags) ==
    IF flags = <<>> THEN <<>>
    ELSE (IF Contains(Head(flags).data_test, S_limited_offer) THEN <<>>
          ELSE <<Strip(Head(flags).text)>>) \o AdditionalInfo(Tail(flags))

\* an exception reaches the except clause of lines 254-256
ExtractRaises(card, base_url) ==
    \/ card.data_test = NoneVal                               \* AttributeError, line 157
    \/ ~card.has_img                                          \* NoSuchElementException
    \/ ~card.has_title
    \/ ~card.has_size
    \/ ~card.has_price
    \/ DiscountDividesByZero(card)                            \* ZeroDivisionError
    \/ \E k \in 1..Len(card.flags) : card.flags[k].data_test = NoneVal  \* TypeError, line 226
    \/ ~card.has_a
    \/ urljoin_raises(base_url, card.href)                    \* ValueError
    \/ is_allowed_raises(urljoin(base_url, card.href))

NoRecord == [none |-> TRUE]

extract_product_info(card, base_url) ==
    IF ExtractRaises(card, base_url) THEN NoRecord
    ELSE IF ~is_allowed(urljoin(base_url, card.href)) THEN NoRecord
    ELSE [product_id      |-> PyStr(SplitLast(card.data_test, S_product_card)),
          title           |-> PyStr(Strip(card.title_text)),
          image           |-> PyOpt(card.src),
          color_options   |-> PyInt(ColorOptions(card.color_tips)),
          size_info       |-> PyStr(Strip(card.size_text)),
          original_price  |-> PyOpt(OriginalPrice(card)),
          sale_price      |-> PyOpt(SalePrice(card)),
          discount        |-> DiscountField(card),
          limited_offer   |-> IF card.limited_offer # <<>>
                              THEN PyStr(Strip(card.limited_offer[1])) ELSE PyNone,
          additional_info |-> PyList(AdditionalInfo(card.flags)),
          product_url     |-> PyStr(urljoin(base_url, card.href))]

----------------------------------------------------------------------------
(* The item cards extract_product_info is swept over *)

URL_TOPS == <<"h","t","t","p","s",":","/","/","u",".","c","o","m","/","m","y","/","e","n","/","w","o","m","e","n","/","t","o","p","s">>
URL_SEARCH == <<"h","t","t","p","s",":","/","/","u",".","c","o","m","/","m","y","/","e","n","/","s","e","a","r","c","h","?","q","=","t","o","p","s">>
URL_BAD == <<"h","t","t","p","s",":","/","/","[","u","/","m","y","/","e","n","/","w","o","m","e","n">>
HREF_E1 == <<"h","t","t","p","s",":","/","/","u",".","c","o","m","/","m","y","/","e","n","/","p","r","o","d","u","c","t","s","/","E","1">>
HREF_CMS == <<"/","m","y","/","e","n","/","c","m","s","/","s","a","l","e">>
HREF_SEARCH == <<"h","t","t","p","s",":","/","/","u",".","c","o","m","/","m","y","/","e","n","/","s","e","a","r","c","h">>
HREF_BAD == <<"h","t","t","p","s",":","/","/","[","u","/","p">>
DT_E1 == <<"p","r","o","d","u","c","t","-","c","a","r","d","-","E","1">>
DT_PLAIN == <<"E","2">>
SRC_E1 == <<"h","t","t","p","s",":","/","/","i",".","u",".","c","o","m","/","E","1",".","j","p","g">>
T_TITLE == <<" ","A","I","R","i","s","m"," ","T","e","e"," ">>
T_SIZE == <<"X","S","-","X","L">>
P_100 == <<"R","M","1","0","0",".","0","0">>
P_75 == <<"R","M","7","5",".","0","0">>
P_1299 == <<"1",",","2","9","9",".","9","0">>
P_59 == <<"R","M"," ","5","9",".","9","0">>
P_0 == <<"R","M","0",".","0","0">>
P_ABC == <<"a","b","c">>
P_120 == <<"R","M","1","2","0",".","0","0">>
T_OFFER == <<"L","i","m","i","t","e","d"," ","O","f","f","e","r">>
DT_OFFER == <<"l","i","m","i","t","e","d","-","o","f","f","e","r","-","f","r","o","m">>
DT_NEW == <<"n","e","w","-","f","l","a","g">>
T_NEW == <<" ","N","E","W"," ">>
T_SALE == <<"S","A","L","E">>
C_TIP == <<"c","o","l","o","r","-","t","i","p">>
C_TIP_EXTRA == <<"c","o","l","o","r","-","t","i","p"," ","e","x","t","r","a">>

\* a card with every element, no price fragment, no flag
PlainCard ==
    [data_test |-> DT_E1, has_img |-> TRUE, src |-> SRC_E1,
     color_tips |-> <<C_TIP, C_TIP, C_TIP_EXTRA>>,
     has_title |-> TRUE, title_text |-> T_TITLE,
     has_size |-> TRUE, size_text |-> T_SIZE,
     has_price |-> TRUE, price_original |-> <<>>, price_limited |-> <<>>,
     limited_offer |-> <<>>, flags |-> <<>>,
     has_a |-> TRUE, href |-> HREF_E1]

\* no card (the value of product outside SpecExtract)
NoProduct == [PlainCard EXCEPT !.data_test = NoneVal, !.has_img = FALSE, !.has_title = FALSE,
                               !.has_size = FALSE, !.has_price = FALSE, !.has_a = FALSE,
                               !.src = NoneVal, !.href = NoneVal, !.color_tips = <<>>]

ImgVariants == {[has |-> FALSE, src |-> NoneVal], [has |-> TRUE, src |-> NoneVal],
                [has |-> TRUE, src |-> SRC_E1]}

AnchorVariants == {[has |-> FALSE, href |-> NoneVal], [has |-> TRUE, href |-> NoneVal],
                   [has |-> TRUE, href |-> HREF_E1], [has |-> TRUE, href |-> HREF_CMS],
                   [has |-> TRUE, href |-> HREF_SEARCH], [has |-> TRUE, href |-> HREF_BAD]}

OriginalSpans == {<<>>, <<<<>>>>, <<P_100>>, <<P_ABC>>, <<P_0>>, <<S_RM, P_1299>>}

LimitedSpans == {<<>>, <<<<>>>>, <<P_75>>, <<P_ABC>>, <<P_120>>, <<S_RM, P_59>>}

FlagVariants ==
    {[offer |-> <<>>, flags |-> <<>>],
     [offer |-> <<T_OFFER>>,
      flags |-> <<[data_test |-> DT_OFFER, text |-> T_OFFER], [data_test |-> DT_NEW, text |-> T_NEW],
                  [data_test |-> DT_NEW, text |-> T_NEW]>>],
     [offer |-> <<>>, flags |-> <<[data_test |-> DT_NEW, text |-> T_NEW],
                                 [data_test |-> NoneVal, text |-> T_SALE]>>]}

Cards ==
    {[PlainCard EXCEPT !.data_test = dt, !.has_img = img.has, !.src = img.src,
                       !.has_title = ti, !.has_size = sz, !.has_price = (o # <<>> \/ l # <<>> \/ pr),
                       !.price_original = o, !.price_limited = l,
                       !.limited_offer = fl.offer, !.flags = fl.flags,
                       !.has_a = a.has, !.href = a.href] :
        dt \in {NoneVal, DT_E1, DT_PLAIN}, img \in ImgVariants, ti \in BOOLEAN, sz \in BOOLEAN,
        pr \in BOOLEAN, o \in OriginalSpans, l \in LimitedSpans, fl \in FlagVariants,
        a \in AnchorVariants}

\* the JSON destination: no file, or a file holding a document
NoFile == [exists |-> FALSE, doc |-> <<>>]
FileOf(doc) == [exists |-> TRUE, doc |-> doc]

\* the values of the variables a specification does not use
PolicyIdle ==
    /\ allowed = "unset"
    /\ comp = [scheme |-> <<>>, netloc |-> NoneVal, path |-> <<>>, tail |-> <<>>]

ExtractIdle ==
    /\ product = NoProduct
    /\ product_info = NoRecord

ScrapeIdle ==
    /\ driver = "none"
    /\ navigated = FALSE
    /\ load_more_count = 0
    /\ scrolls = 0
    /\ waits = 0
    /\ click_calls = 0
    /\ stale_count = 0
    /\ visible_seen = FALSE
    /\ done_reason = ""
    /\ product_list = <<>>
    /\ item_index = 0
    /\ products = <<>>
    /\ returned = <<>>
    /\ raised_at = ""
    /\ json_file = NoFile

ExtractInit ==
    /\ pc = "extract_one"
    /\ url = URL_TOPS
    /\ PolicyIdle
    /\ ScrapeIdle
    /\ product \in Cards
    /\ product_info = NoRecord

\* one call extract_product_info(product, url)
CallExtract ==
    /\ pc = "extract_one"
    /\ product_info' = extract_product_info(product, url)
    /\ pc' = "extract_done"
    /\ UNCHANGED <<url, policyVars, product, scrapeVars>>

ExtractNext == CallExtract

SpecExtract == ExtractInit /\ [][ExtractNext]_vars

----------------------------------------------------------------------------
(* The URLs is_allowed is swept over: scheme, network location, a path of  *)
(* up to MaxPathChunks chunks, and a tail (params, query, fragment).       *)

MaxPathChunks == 4

PathChunks == {S_my_en, S_cms, S_search, S_news, S_sp, S_slash, S_x}

RECURSIVE Flatten(_)
Flatten(ss) == IF ss = <<>> THEN <<>> ELSE Head(ss) \o Flatten(Tail(ss))

ChunkSeqs == UNION {[1..n -> PathChunks] : n \in 0..MaxPathChunks}

Schemes == {<<>>, <<"h", "t", "t", "p", "s", ":">>}

Netlocs == {NoneVal, <<"u", ".", "c", "o", "m">>, <<"[", "u">>}

Tails == {<<>>, <<"?", "q", "=", "/", "x">>, <<"#", "/", "m", "y">>, <<";", "p">>}

Compose(c) ==
    c.scheme \o (IF c.netloc = NoneVal THEN <<>> ELSE <<"/", "/">> \o c.netloc)
             \o c.path \o c.tail

PolicyInit ==
    /\ pc = "policy"
    /\ ExtractIdle
    /\ ScrapeIdle
    /\ allowed = "unset"
    /\ \E s \in Schemes, n \in Netlocs, p \in ChunkSeqs, t \in Tails :
          /\ comp = [scheme |-> s, netloc |-> n, path |-> Flatten(p), tail |-> t]
          /\ url = Compose(comp)

\* one call is_allowed(url)
CallIsAllowed ==
    /\ pc = "policy"
    /\ allowed' = IF is_allowed_raises(url) THEN "ValueError"
                  ELSE IF is_allowed(url) THEN "True" ELSE "False"
    /\ pc' = "policy_done"
    /\ UNCHANGED <<url, comp, extractVars, scrapeVars>>

PolicyNext == CallIsAllowed

SpecPolicy == PolicyInit /\ [][PolicyNext]_vars

----------------------------------------------------------------------------
(* save_to_json: json.dump and the json.load that reads the file back.     *)
(* A JSON document is held as its values: null, string, number, array,     *)
(* and an object as the list of its members in the order written.          *)

\* the keys of product_info in insertion order (lines 237-249)
FieldOrder ==
    <<"product_id", "title", "image", "color_options", "size_info", "original_price",
      "sale_price", "discount", "limited_offer", "additional_info", "product_url">>

\* JsonValue with None written as the string "None"
JsonValue_NoneAsText(v) ==
    CASE v.type = "NoneType" -> [j |-> "string", s |-> <<"N", "o", "n", "e">>, n |-> 0, a |-> <<>>]
      [] v.type = "str"      -> [j |-> "string", s |-> v.s, n |-> 0, a |-> <<>>]
      [] v.type = "int"      -> [j |-> "number", s |-> <<>>, n |-> v.n, a |-> <<>>]
      [] v.type = "float"    -> [j |-> "number", s |-> v.s, n |-> 0, a |-> <<>>]
      [] v.type = "list"     -> [j |-> "array", s |-> <<>>, n |-> 0, a |-> v.l]

\* json.dump of one value
JsonValue(v) ==
    CASE v.type = "NoneType" -> [j |-> "null", s |-> <<>>, n |-> 0, a |-> <<>>]
      [] v.type = "str"      -> [j |-> "string", s |-> v.s, n |-> 0, a |-> <<>>]
      [] v.type = "int"      -> [j |-> "number", s |-> <<>>, n |-> v.n, a |-> <<>>]
      [] v.type = "float"    -> [j |-> "number", s |-> v.s, n |-> 0, a |-> <<>>]
      [] v.type = "list"     -> [j |-> "array", s |-> <<>>, n |-> 0, a |-> v.l]

\* json.load of one value
PyValue(x) ==
    CASE x.j = "null"   -> PyNone
      [] x.j = "string" -> PyStr(x.s)
      [] x.j = "number" -> IF x.s = <<>> THEN PyInt(x.n) ELSE PyFloat(x.s)
      [] x.j = "array"  -> PyList(x.a)

\* json.dump(products, ...): an array of objects
json_dump(ps) ==
    [k \in 1..Len(ps) |->
        [m \in 1..Len(FieldOrder) |->
            [key |-> FieldOrder[m], value |-> JsonValue(ps[k][FieldOrder[m]])]]]

\* the value of key in an object: the last member of that name
Member(obj, key) ==
    obj[CHOOSE m \in 1..Len(obj) :
            obj[m].key = key /\ \A m2 \in (m + 1)..Len(obj) : obj[m2].key # key].value

\* json.load(file): a list of dicts
json_load(doc) ==
    [k \in 1..Len(doc) |->
        [f \in {doc[k][m].key : m \in 1..Len(doc[k])} |-> PyValue(Member(doc[k], f))]]

----------------------------------------------------------------------------
(* scrape_uniqlo_women_tops and the __main__ block *)

\* reveal-loop iterations the model follows
MaxIterations == 2

\* item cards find_elements may return
MaxItems == 2

EntryURLs == {URL_TOPS, URL_SEARCH, URL_BAD}

\* the item cards of a page
CardCatalogue ==
    {PlainCard,
     [PlainCard EXCEPT !.data_test = DT_PLAIN, !.price_original = <<P_100>>,
                       !.price_limited = <<P_75>>, !.limited_offer = <<T_OFFER>>,
                       !.flags = <<[data_test |-> DT_OFFER, text |-> T_OFFER],
                                   [data_test |-> DT_NEW, text |-> T_NEW]>>],
     [PlainCard EXCEPT !.has_title = FALSE],
     [PlainCard EXCEPT !.href = HREF_CMS]}

CardLists == UNION {[1..n -> CardCatalogue] : n \in 0..MaxItems}

\* a file an earlier run left at the destination
OldFile == FileOf(json_dump(<<extract_product_info(PlainCard, URL_TOPS)>>))

Init ==
    /\ pc = "is_allowed"
    /\ url \in EntryURLs
    /\ PolicyIdle
    /\ ExtractIdle
    /\ driver = "none"
    /\ navigated = FALSE
    /\ load_more_count = 0
    /\ scrolls = 0
    /\ waits = 0
    /\ click_calls = 0
    /\ stale_count = 0
    /\ visible_seen = FALSE
    /\ done_reason = ""
    /\ product_list = <<>>
    /\ item_index = 0
    /\ products = <<>>
    /\ returned = <<>>
    /\ raised_at = ""
    /\ (json_file = NoFile \/ json_file = OldFile)

\* an exception leaves scrape_uniqlo_women_tops at the step pc names
Raise ==
    /\ raised_at' = pc
    /\ pc' = "raised"

\* CheckEntryPolicy without the refusal: a disallowed entry URL goes on to the driver
CheckEntryPolicy_NoRefusal ==
    /\ pc = "is_allowed"
    /\ \/ /\ is_allowed_raises(url)
          /\ Raise
       \/ /\ ~is_allowed_raises(url)
          /\ pc' = "setup_driver"
          /\ UNCHANGED raised_at
    /\ UNCHANGED <<url, policyVars, extractVars, driver, navigated, loopVars, batchVars,
                   returned, json_file>>

\* lines 269-271
CheckEntryPolicy ==
    /\ pc = "is_allowed"
    /\ \/ /\ is_allowed_raises(url)
          /\ Raise
          /\ UNCHANGED returned
       \/ /\ ~is_allowed_raises(url)
          /\ ~is_allowed(url)
          /\ returned' = <<>>
          /\ pc' = "returned"
          /\ UNCHANGED raised_at
       \/ /\ ~is_allowed_raises(url) /\ is_allowed(url)
          /\ pc' = "setup_driver"
          /\ UNCHANGED <<returned, raised_at>>
    /\ UNCHANGED <<url, policyVars, extractVars, driver, navigated, loopVars, batchVars, json_file>>

\* line 273 (setup_driver, lines 20-48): webdriver.Chrome fails, or the session is
\* created and the script of line 44 fails, or the driver is returned
SetupDriver ==
    /\ pc = "setup_driver"
    /\ \/ /\ Raise
          /\ UNCHANGED driver
       \/ /\ driver' = "open"
          /\ Raise
       \/ /\ driver' = "open"
          /\ pc' = "get"
          /\ UNCHANGED raised_at
    /\ UNCHANGED <<url, policyVars, extractVars, navigated, loopVars, batchVars, returned, json_file>>

\* line 274
Navigate ==
    /\ pc = "get"
    /\ navigated' = TRUE
    /\ \/ Raise
       \/ /\ pc' = "initial_height"
          /\ UNCHANGED raised_at
    /\ UNCHANGED <<url, policyVars, extractVars, driver, loopVars, batchVars, returned, json_file>>

\* InitialReport with the call of line 286 left out: the items are enumerated at once
InitialReport_SkipsLoop ==
    /\ pc = "initial_height"
    /\ \/ Raise
       \/ /\ pc' = "find_elements"
          /\ UNCHANGED raised_at
    /\ UNCHANGED <<url, policyVars, extractVars, driver, navigated, loopVars, batchVars,
                   returned, json_file>>

\* lines 277-284: the page-height script and driver.title
InitialReport ==
    /\ pc = "initial_height"
    /\ \/ Raise
       \/ /\ pc' = "scroll"
          /\ UNCHANGED raised_at
    /\ UNCHANGED <<url, policyVars, extractVars, driver, navigated, loopVars, batchVars,
                   returned, json_file>>

----------------------------------------------------------------------------
(* scroll_and_click_load_more: one action per page interaction of the loop *)

\* what WebDriverWait.until may raise, and what an operation on the located element may raise
WaitErrors == {"TimeoutException", "WebDriverException"}
ElementErrors == {"StaleElementReferenceException", "NoSuchElementException", "WebDriverException"}

AfterLoop == "find_elements"

\* a counter of the loop advanced by one; MaxIterations caps what the model records,
\* and under Spec the guard of ScrollToBottom keeps every counter below the cap
Counted(n) == IF n < MaxIterations THEN n + 1 ELSE n

\* Handler with the stale reference ending the loop like any other error
Handler_StaleAborts(e) ==
    CASE e = "TimeoutException"       -> [next |-> AfterLoop, reason |-> "timeout"]
      [] e = "NoSuchElementException" -> [next |-> AfterLoop, reason |-> "not_found"]
      [] OTHER                        -> [next |-> AfterLoop, reason |-> "unexpected"]

\* the except clauses of lines 116-128: where the loop goes and the reason it records
Handler(e) ==
    CASE e = "TimeoutException"               -> [next |-> AfterLoop, reason |-> "timeout"]
      [] e = "NoSuchElementException"         -> [next |-> AfterLoop, reason |-> "not_found"]
      [] e = "StaleElementReferenceException" -> [next |-> "scroll", reason |-> ""]
      [] OTHER                                -> [next |-> AfterLoop, reason |-> "unexpected"]

\* exception e is raised inside the try block
Caught(e) ==
    /\ pc' = Handler(e).next
    /\ done_reason' = Handler(e).reason
    /\ stale_count' = IF e = "StaleElementReferenceException" THEN Counted(stale_count) ELSE stale_count

\* lines 90-93: outside the try block
ScrollToBottomStep ==
    /\ pc = "scroll"
    /\ scrolls' = Counted(scrolls)
    /\ \/ Raise
       \/ /\ pc' = "page_height"
          /\ UNCHANGED raised_at
    /\ UNCHANGED <<url, policyVars, extractVars, driver, navigated, load_more_count, waits,
                   click_calls, stale_count, visible_seen, done_reason, batchVars, returned,
                   json_file>>

\* the loop of line 89, cut after MaxIterations iterations
ScrollToBottom ==
    /\ scrolls < MaxIterations
    /\ ScrollToBottomStep

\* lines 95-97: outside the try block
PageHeight ==
    /\ pc = "page_height"
    /\ \/ Raise
       \/ /\ pc' = "wait"
          /\ UNCHANGED raised_at
    /\ UNCHANGED <<url, policyVars, extractVars, driver, navigated, loopVars, batchVars,
                   returned, json_file>>

\* lines 100-102
PresenceWait ==
    /\ pc = "wait"
    /\ waits' = Counted(waits)
    /\ \/ /\ pc' = "is_displayed_print"
          /\ UNCHANGED <<done_reason, stale_count>>
       \/ \E e \in WaitErrors : Caught(e)
    /\ UNCHANGED <<url, policyVars, extractVars, driver, navigated, load_more_count, scrolls,
                   click_calls, visible_seen, batchVars, returned, raised_at, json_file>>

\* line 103: the is_displayed() of the print
DisplayedReport ==
    /\ pc = "is_displayed_print"
    /\ \/ \E shown \in BOOLEAN :
             /\ visible_seen' = (visible_seen \/ shown)
             /\ pc' = "is_displayed"
             /\ UNCHANGED <<done_reason, stale_count>>
       \/ /\ \E e \in ElementErrors : Caught(e)
          /\ UNCHANGED visible_seen
    /\ UNCHANGED <<url, policyVars, extractVars, driver, navigated, load_more_count, scrolls,
                   waits, click_calls, batchVars, returned, raised_at, json_file>>

\* DisplayedCheck with "continue" where the code has "break"
DisplayedCheck_ContinuesWhenHidden ==
    /\ pc = "is_displayed"
    /\ \/ /\ pc' = "scroll"
          /\ UNCHANGED <<visible_seen, stale_count, done_reason>>
       \/ /\ visible_seen' = TRUE
          /\ pc' = "scroll_into_view"
          /\ UNCHANGED <<done_reason, stale_count>>
       \/ /\ \E e \in ElementErrors : Caught(e)
          /\ UNCHANGED visible_seen
    /\ UNCHANGED <<url, policyVars, extractVars, driver, navigated, load_more_count, scrolls,
                   waits, click_calls, batchVars, returned, raised_at, json_file>>

\* DisplayedCheck without the break: a control that is not displayed is clicked too
DisplayedCheck_ClicksWhenHidden ==
    /\ pc = "is_displayed"
    /\ \/ /\ pc' = "scroll_into_view"
          /\ UNCHANGED <<visible_seen, done_reason, stale_count>>
       \/ /\ visible_seen' = TRUE
          /\ pc' = "scroll_into_view"
          /\ UNCHANGED <<done_reason, stale_count>>
       \/ /\ \E e \in ElementErrors : Caught(e)
          /\ UNCHANGED visible_seen
    /\ UNCHANGED <<url, policyVars, extractVars, driver, navigated, load_more_count, scrolls,
                   waits, click_calls, batchVars, returned, raised_at, json_file>>

\* lines 105-107
DisplayedCheck ==
    /\ pc = "is_displayed"
    /\ \/ /\ pc' = AfterLoop
          /\ done_reason' = "not_visible"
          /\ UNCHANGED <<visible_seen, stale_count>>
       \/ /\ visible_seen' = TRUE
          /\ pc' = "scroll_into_view"
          /\ UNCHANGED <<done_reason, stale_count>>
       \/ /\ \E e \in ElementErrors : Caught(e)
          /\ UNCHANGED visible_seen
    /\ UNCHANGED <<url, policyVars, extractVars, driver, navigated, load_more_count, scrolls,
                   waits, click_calls, batchVars, returned, raised_at, json_file>>

\* lines 109-110
ScrollIntoView ==
    /\ pc = "scroll_into_view"
    /\ \/ /\ pc' = "click"
          /\ UNCHANGED <<done_reason, stale_count>>
       \/ \E e \in ElementErrors : Caught(e)
    /\ UNCHANGED <<url, policyVars, extractVars, driver, navigated, load_more_count, scrolls,
                   waits, click_calls, visible_seen, batchVars, returned, raised_at, json_file>>

\* Click with the counter advanced before the click is made
Click_CountsBeforeClick ==
    /\ pc = "click"
    /\ click_calls' = Counted(click_calls)
    /\ load_more_count' = Counted(load_more_count)
    /\ \/ /\ pc' = "scroll"
          /\ UNCHANGED <<done_reason, stale_count>>
       \/ \E e \in ElementErrors : Caught(e)
    /\ UNCHANGED <<url, policyVars, extractVars, driver, navigated, scrolls, waits,
                   visible_seen, batchVars, returned, raised_at, json_file>>

\* lines 111-114 and the print of line 130
Click ==
    /\ pc = "click"
    /\ click_calls' = Counted(click_calls)
    /\ \/ /\ load_more_count' = Counted(load_more_count)
          /\ pc' = "scroll"
          /\ UNCHANGED <<done_reason, stale_count>>
       \/ /\ \E e \in ElementErrors : Caught(e)
          /\ UNCHANGED load_more_count
    /\ UNCHANGED <<url, policyVars, extractVars, driver, navigated, scrolls, waits,
                   visible_seen, batchVars, returned, raised_at, json_file>>

----------------------------------------------------------------------------
(* the rest of scrape_uniqlo_women_tops, and save_to_json as __main__ calls it *)

\* lines 288-291
FindElements ==
    /\ pc = "find_elements"
    /\ \/ /\ Raise
          /\ UNCHANGED product_list
       \/ /\ product_list' \in CardLists
          /\ pc' = "extract"
          /\ UNCHANGED raised_at
    /\ UNCHANGED <<url, policyVars, extractVars, driver, navigated, loopVars, item_index,
                   products, returned, json_file>>

\* ExtractItem with a failed item ending the for loop
ExtractItem_AbortsOnFailure ==
    /\ pc = "extract"
    /\ item_index < Len(product_list)
    /\ LET info == extract_product_info(product_list[item_index + 1], url)
       IN  /\ products' = IF info # NoRecord THEN Append(products, info) ELSE products
           /\ item_index' = IF info # NoRecord THEN item_index + 1 ELSE Len(product_list)
    /\ UNCHANGED <<pc, url, policyVars, extractVars, driver, navigated, loopVars, product_list,
                   returned, raised_at, json_file>>

\* lines 292-296: one turn of the for loop
ExtractItem ==
    /\ pc = "extract"
    /\ item_index < Len(product_list)
    /\ LET info == extract_product_info(product_list[item_index + 1], url)
       IN  products' = IF info # NoRecord THEN Append(products, info) ELSE products
    /\ item_index' = item_index + 1
    /\ UNCHANGED <<pc, url, policyVars, extractVars, driver, navigated, loopVars, product_list,
                   returned, raised_at, json_file>>

\* lines 298-301
Quit ==
    /\ pc = "extract"
    /\ item_index = Len(product_list)
    /\ driver' = "quit"
    /\ returned' = products
    /\ pc' = "returned"
    /\ UNCHANGED <<url, policyVars, extractVars, navigated, loopVars, batchVars, raised_at,
                   json_file>>

\* save_to_json(products, filename), lines 324-337, called at line 346
save_to_json ==
    /\ pc = "returned"
    /\ json_file' = IF returned = <<>> THEN json_file ELSE FileOf(json_dump(returned))
    /\ pc' = "saved"
    /\ UNCHANGED <<url, policyVars, extractVars, driver, navigated, loopVars, batchVars,
                   returned, raised_at>>

Next ==
    \/ CheckEntryPolicy
    \/ SetupDriver
    \/ Navigate
    \/ InitialReport
    \/ ScrollToBottom
    \/ PageHeight
    \/ PresenceWait
    \/ DisplayedReport
    \/ DisplayedCheck
    \/ ScrollIntoView
    \/ Click
    \/ FindElements
    \/ ExtractItem
    \/ Quit
    \/ save_to_json

Spec == Init /\ [][Next]_vars

\* one interaction of the while loop of line 89 left uncut: counters stop at
\* MaxIterations and the loop goes on
RevealLoop ==
    \/ ScrollToBottomStep
    \/ PageHeight
    \/ PresenceWait
    \/ DisplayedReport
    \/ DisplayedCheck
    \/ ScrollIntoView
    \/ Click

NextUncut ==
    \/ CheckEntryPolicy
    \/ SetupDriver
    \/ Navigate
    \/ InitialReport
    \/ RevealLoop
    \/ FindElements
    \/ ExtractItem
    \/ Quit
    \/ save_to_json

\* every interaction of the loop returns or raises (the waits and sleeps are timed), so
\* the loop always takes its next step; which outcome the page gives is left open
SpecUncut == Init /\ [][NextUncut]_vars /\ WF_vars(RevealLoop)

----------------------------------------------------------------------------
(* The claims *)

LoopSteps ==
    {"scroll", "page_height", "wait", "is_displayed_print", "is_displayed",
     "scroll_into_view", "click"}

Exited == pc \in {"returned", "saved", "raised"}

\* C1: whenever scrape_uniqlo_women_tops obtained a browser session, the session has
\* been released (driver.quit) by the time the call has exited, by return or by an
\* exception of any step after setup_driver.
C1_SessionReleasedOnExit ==
    (Exited /\ driver # "none" /\ raised_at # "setup_driver") => driver = "quit"

\* the four required fields can be read from the card
RequiredExtractable(card) ==
    /\ card.data_test # NoneVal
    /\ card.has_img /\ card.src # NoneVal
    /\ card.has_title
    /\ card.has_a /\ card.href # NoneVal

\* C2: a record is returned exactly for the cards whose productId, title, imageUrl and
\* productUrl can all be extracted and whose URL is allowed; in every record the four
\* fields hold the extracted values (none None, none a default).
C2_RequiredFieldsExtracted ==
    pc = "extract_done" =>
       /\ product_info # NoRecord =>
             /\ RequiredExtractable(product)
             /\ product_info.product_id.type = "str"
             /\ product_info.title.type = "str"
             /\ product_info.image = PyStr(product.src)
             /\ product_info.product_url = PyStr(urljoin(url, product.href))
             /\ is_allowed(product_info.product_url.s)
       /\ ~RequiredExtractable(product) => product_info = NoRecord

\* the outcome of extract_product_info for every card and entry URL of the model
ExtractionTable ==
    [card \in CardCatalogue |-> [base \in EntryURLs |-> extract_product_info(card, base)]]

\* the records of a list of cards: those of the cards that yield one, in order
RECURSIVE RecordsOf(_, _)
RecordsOf(cards, base) ==
    IF cards = <<>> THEN <<>>
    ELSE (IF ExtractionTable[Head(cards)][base] = NoRecord THEN <<>>
          ELSE <<ExtractionTable[Head(cards)][base]>>) \o RecordsOf(Tail(cards), base)

\* C3: while the batch is processed the collected records are exactly the records of
\* the cards processed so far, in order; the returned list is the records of all the
\* enumerated cards; and no exception leaves the batch.
C3_BatchSurvivesFailures ==
    /\ pc = "extract" =>
          /\ item_index <= Len(product_list)
          /\ products = RecordsOf(SubSeq(product_list, 1, item_index), url)
    /\ (pc \in {"returned", "saved"} /\ driver = "quit") =>
          returned = RecordsOf(product_list, url)
    /\ raised_at # "extract"

\* a failing card before a good one: one record returned out of two cards
C3_Witness ==
    /\ pc = "returned"
    /\ Len(product_list) = 2
    /\ extract_product_info(product_list[1], url) = NoRecord
    /\ returned = <<extract_product_info(product_list[2], url)>>

\* C4: no exception of a page interaction of the reveal loop leaves the loop.
C4_RevealErrorsAbsorbed == raised_at \notin LoopSteps

EntryDisallowed == ~is_allowed_raises(url) /\ ~is_allowed(url)

\* C5: with a disallowed entry URL the call returns the empty list and creates no
\* session, navigates nowhere and enters neither the reveal loop nor the extraction;
\* and a navigation happens only for an entry URL the policy allows.
C5_DisallowedEntryRefused ==
    /\ (EntryDisallowed /\ pc # "is_allowed") =>
          /\ pc \in {"returned", "saved"}
          /\ returned = <<>>
          /\ driver = "none"
          /\ ~navigated
          /\ scrolls = 0 /\ waits = 0 /\ click_calls = 0
          /\ product_list = <<>> /\ item_index = 0
    /\ navigated => (~is_allowed_raises(url) /\ is_allowed(url))

C5_Witness == pc = "returned" /\ url = URL_SEARCH /\ returned = <<>> /\ driver = "none"

\* C6: as long as no is_displayed() has returned True (and no stale reference was met),
\* the loop is in its first iteration and short of the click path; and when it has left
\* by timeout, control not found or control not displayed, that was after one scroll and
\* one presence wait, with no click made or counted and no exception raised.
C6_NeverVisibleEndsLoop ==
    (~visible_seen /\ stale_count = 0) =>
       /\ scrolls <= 1
       /\ pc \notin {"scroll_into_view", "click"}
       /\ pc = "scroll" => scrolls = 0
       /\ done_reason \in {"timeout", "not_found", "not_visible"} =>
             /\ scrolls = 1 /\ waits = 1
             /\ load_more_count = 0 /\ click_calls = 0
             /\ pc \notin LoopSteps
             /\ raised_at \notin LoopSteps

C6_Witness ==
    /\ done_reason = "not_visible" /\ ~visible_seen /\ stale_count = 0
    /\ pc = "find_elements" /\ scrolls = 1 /\ waits = 1

\* the prefixes C7 names
ClaimedPrefixes ==
    { <<"/","m","y","/","e","n","/","c","m","s","/">>,
      <<"/","m","y","/","e","n","/","s","e","a","r","c","h">>,
      <<"/","m","y","/","e","n","/","n","e","w","s","/","s","e","a","r","c","h">>,
      <<"/","m","y","/","e","n","/","n","e","w","s","/","s","p","/","s","e","a","r","c","h">> }

\* the URL was composed so that its path component is comp.path
PathIsComponent ==
    /\ comp.netloc # NoneVal => (comp.path = <<>> \/ Head(comp.path) = "/")
    /\ comp.netloc = NoneVal => ~StartsWith(comp.path, <<"/", "/">>)

\* C7: is_allowed returns for every URL (it is total); it returns False exactly when the
\* parsed path starts with one of the four prefixes; and the result is decided by the
\* path component alone, whatever the scheme, host, query or fragment.
C7_IsAllowedTotal ==
    pc = "policy_done" =>
       /\ allowed \in {"True", "False"}
       /\ (allowed = "False") <=> (\E p \in ClaimedPrefixes : StartsWith(urlparse(url).path, p))
       /\ PathIsComponent =>
             ((allowed = "False") <=> (\E p \in ClaimedPrefixes : StartsWith(comp.path, p)))

\* the text of the last span of a price fragment, NoneVal if there is none
LastText(spans) == IF spans = <<>> THEN NoneVal ELSE Strip(spans[Len(spans)])

\* both prices are present and parse as numbers once "," and "RM" are removed
BothParse(o, s) ==
    /\ o # NoneVal /\ s # NoneVal
    /\ ~float_raises(Remove(Remove(o, <<",">>), <<"R", "M">>))
    /\ ~float_raises(Remove(Remove(s, <<",">>), <<"R", "M">>))

\* (original - sale) / original * 100 rounded to 2 decimals, as the repr of the float
ClaimedDiscount(o, s) ==
    FloatRepr(RoundedDiscount(float_cents(Remove(Remove(o, <<",">>), <<"R", "M">>)),
                              float_cents(Remove(Remove(s, <<",">>), <<"R", "M">>))))

C9_RoundTripAnyList ==
    pc = "saved" => (json_file.exists /\ json_load(json_file.doc) = returned)

\* C9 as amended: for every non-empty list handed to save_to_json, the destination read
\* back gives that list.
C9_RoundTripNonEmpty ==
    (pc = "saved" /\ returned # <<>>) =>
       (json_file.exists /\ json_load(json_file.doc) = returned)

\* two records written, the first with None fields
C9_Witness ==
    /\ pc = "saved" /\ Len(returned) = 2
    /\ returned[1].sale_price = PyNone
    /\ json_file.exists

\* C10: a step that meets a stale reference is one of the control's interactions, leaves
\* the loop running (back at the top of the iteration, no reason to end recorded, nothing
\* raised) and leaves load_more_count as it was.
C10_StaleRetries ==
    [][stale_count' # stale_count =>
          /\ pc \in {"is_displayed_print", "is_displayed", "scroll_into_view", "click"}
          /\ pc' = "scroll"
          /\ done_reason' = ""
          /\ raised_at' = ""
          /\ load_more_count' = load_more_count]_vars

\* after a stale reference the control's click is reached again
C10_Witness ==
    /\ stale_count = 1 /\ scrolls = 2 /\ pc = "click" /\ load_more_count = 0

\* C11: whatever the page does, a reveal loop that has begun is eventually left (the
\* least the claim asks: reaching DONE and returning the records both need it).
C11_RevealLoopLeft == (pc \in LoopSteps) ~> (pc \notin LoopSteps)

\* the trimmed texts of the flag items other than the limited-offer one, in rendered order
RECURSIVE ClaimedTags(_)
ClaimedTags(flags) ==
    IF flags = <<>> THEN <<>>
    ELSE (IF Head(flags).data_test # NoneVal /\ Contains(Head(flags).data_test, S_limited_offer)
          THEN <<>> ELSE <<Strip(Head(flags).text)>>) \o ClaimedTags(Tail(flags))

\* C12: a card whose required fields are extractable and that yields a record when its
\* flag items are taken away yields a record with them too, whatever they are (a flag item without data-test included), and the
\* record's additional_info is the trimmed texts of the flag items other than the
\* limited-offer one, in order, duplicates kept.
C12_TagsForEveryFlagList ==
    (/\ pc = "extract_done"
     /\ RequiredExtractable(product)
     /\ extract_product_info([product EXCEPT !.flags = <<>>], url) # NoRecord) =>
       /\ product_info # NoRecord
       /\ product_info.additional_info = PyList(ClaimedTags(product.flags))

\* the discount can be computed: both prices parse and the original one is not zero
DiscountComputable(o, s) ==
    /\ BothParse(o, s)
    /\ float_cents(Remove(Remove(o, <<",">>), <<"R", "M">>)) # 0

\* C13: a card whose required fields are extractable and that yields a record when its
\* price texts are taken away yields a record whatever the price texts are (absent, empty,
\* not a number, an original price of zero), with the discount omitted when it cannot
\* be computed.
C13_DiscountFailureKeepsRecord ==
    (/\ pc = "extract_done"
     /\ RequiredExtractable(product)
     /\ extract_product_info([product EXCEPT !.price_original = <<>>, !.price_limited = <<>>],
                             url) # NoRecord) =>
       /\ product_info # NoRecord
       /\ ~DiscountComputable(LastText(product.price_original), LastText(product.price_limited))
             => product_info.discount = PyNone

\* a step in which load_more_button.click() returned without raising
ClickCompleted == pc = "click" /\ pc' = "scroll" /\ stale_count' = stale_count

\* C14: load_more_count starts at 0; a step changes it only by completing a click, and
\* then by exactly one; every completed click changes it; every other step (a timeout,
\* a control not displayed, a stale reference, another error) leaves it as it was.
C14_CountsCompletedClicks ==
    /\ load_more_count = 0
    /\ [][/\ ClickCompleted => load_more_count' = load_more_count + 1
          /\ ~ClickCompleted => load_more_count' = load_more_count]_vars

\* one click completed, then a second click raised: the counter stays at 1
C14_Witness ==
    /\ pc = AfterLoop /\ done_reason = "unexpected"
    /\ click_calls = 2 /\ load_more_count = 1

\* C15: the loop comes to the click only from the scroll into view, to that only from a
\* visibility check that returned True, to the check only from a presence wait that
\* returned the control, and to the wait only from a scroll to the bottom (through the
\* page-height print); a click is followed by the next iteration's scroll or by the end
\* of the loop, so every click has a scroll, a wait and a check of its own before it.
C15_ClickOnlyAfterVisibleCheck ==
    /\ [](click_calls <= waits /\ waits <= scrolls)
    /\ [][/\ click_calls' # click_calls => (pc = "click" /\ click_calls < waits)
          /\ pc' = "click" => pc = "scroll_into_view"
          /\ pc' = "scroll_into_view" => (pc = "is_displayed" /\ visible_seen')
          /\ pc' = "is_displayed" => pc = "is_displayed_print"
          /\ pc' = "is_displayed_print" => (pc = "wait" /\ waits' = waits + 1)
          /\ pc' = "wait" => pc = "page_height"
          /\ pc' = "page_height" => (pc = "scroll" /\ scrolls' = scrolls + 1)
          /\ pc = "click" => pc' \in {"scroll", AfterLoop}]_vars

\* two clicks, each after a scroll, a wait and a check of its own
C15_Witness ==
    /\ click_calls = 2 /\ load_more_count = 2
    /\ waits = 2 /\ scrolls = 2
    /\ visible_seen

\* the reveal loop has reached DONE: it was left by a break
Done == done_reason # ""

\* C16: once the loop has reached DONE the program is at none of the loop's steps and no
\* step scrolls, waits or clicks again or takes the DONE back; the item elements are
\* enumerated, and the program is at the enumeration or the batch, only after DONE.
C16_DoneAbsorbingAndGating ==
    /\ [](Done => pc \notin LoopSteps)
    /\ [](pc \in {"find_elements", "extract"} => Done)
    /\ [][/\ Done => /\ done_reason' = done_reason
                     /\ scrolls' = scrolls /\ waits' = waits /\ click_calls' = click_calls
                     /\ load_more_count' = load_more_count
          /\ product_list' # product_list => Done]_vars

\* the loop ended by a timeout after one click, then two item cards were enumerated
C16_Witness ==
    /\ pc = "extract" /\ done_reason = "timeout"
    /\ load_more_count = 1 /\ scrolls = 2
    /\ Len(product_list) = 2

====
